---- MODULE Spec2Model ----
(***************************************************************************)
(* Model of the JSON-like decoder of parsing-rs: the tokenizer of          *)
(* src/lexer.rs (generate_tokens), the tokenizer of src/lexer_lt.rs        *)
(* (gen_lexemes), the recursive-descent parser of src/parser_lt.rs         *)
(* (parse_lt) and the recursive-descent parser of src/parser.rs (parse).   *)
(*                                                                         *)
(* A byte is a one-character string, a text is a sequence of bytes.        *)
(* Offsets are 0-based as in the Rust source; At and Slice translate them  *)
(* to the 1-based sequences of TLA+.                                       *)
(***************************************************************************)
EXTENDS Integers, Sequences, FiniteSets, TLC

\* Bounds of the model.
MaxPieces == 3      \* an arbitrary input text is made of at most MaxPieces pieces
MaxSize == 3        \* a grammar-generated document has at most MaxSize nodes
MaxTokens == 4      \* a token text handed to a parser is made of at most MaxTokens pieces

VARIABLES
    bytes,      \* the input text handed to the entry point (s.as_bytes())
    doc,        \* the document tree the text was rendered from, or NoDoc
    entry,      \* the entry point the caller invoked
    pc,         \* the function the call is in: the tokenizer loop, the parser, or done
    outcome,    \* "none" while running, then "returned" or the panic that ended the call
    i,          \* the scan index of the tokenizer's main loop
    iters,      \* the number of iterations of the main loop started so far
    tokens,     \* lexer.rs: the Vec<Token> built by generate_tokens
    lexemes,    \* lexer_lt.rs: the Vec<Lexeme> built by gen_lexemes;
                \* parser.rs: the Vec<Token> get_lexemes returned to parse
    result      \* the Result returned by parse_lt or by parse, or NoResult

vars == <<bytes, doc, entry, pc, outcome, i, iters, tokens, lexemes, result>>

NoDoc == [t |-> "none"]
NoResult == [kind |-> "none"]

----------------------------------------------------------------------------
\* Byte and slice helpers.

\* bytes[k]
At(b, k) == b[k + 1]

\* &bytes[from..to]
Slice(b, from, to) == SubSeq(b, from + 1, to)

Min(S) == CHOOSE x \in S : \A y \in S : x <= y

\* u8::is_ascii_whitespace: space, tab, line feed, form feed, carriage return
is_ascii_whitespace(c) == c \in {" ", "\t", "\n", "\f", "\r"}

\* u8::is_ascii_digit
is_ascii_digit(c) == c \in {"0", "1", "2", "3", "4", "5", "6", "7", "8", "9"}

\* The length of the first chunk of bytes[start..].split_inclusive(pred), for
\* start < bytes.len() and pred true of the bytes in stops: up to and
\* including the first byte in stops, or the whole rest when there is none.
split_inclusive_first_len(b, start, stops) ==
    LET hits == {k \in start..(Len(b) - 1) : At(b, k) \in stops}
    IN  IF hits = {} THEN Len(b) - start ELSE Min(hits) - start + 1

----------------------------------------------------------------------------
\* src/lexer.rs

is_delimiters(c) == c \in {"{", "}", "[", "]", ":", ","}

get_token_type(b) ==
    CASE b = "{" -> "LeftBracket"
      [] b = "}" -> "RightBracket"
      [] b = "[" -> "LeftSquareBracket"
      [] b = "]" -> "RightSquareBracket"
      [] b = ":" -> "Colon"
      [] b = "," -> "Comma"

Token(s, start, type) == [s |-> s, start |-> start, type |-> type]

\* What a helper of lexer.rs hands back: the index of the next byte to
\* process, the token vector, and the panic that interrupted it ("none"
\* when it returned).
Step(next, toks, panic) == [i |-> next, tokens |-> toks, panic |-> panic]

PanicIndex == "panic: index out of bounds"
PanicKeyword == "panic: Unsupported keyword or number."
PanicUnimplemented == "panic: not implemented"
PanicSliceStart == "panic: range start index out of range for slice"

add_quote_token(b, start, toks) ==
    IF start < Len(b) /\ At(b, start) = "\""
    THEN Step(start + 1, Append(toks, Token(Slice(b, start, start + 1), start, "Quote")), "none")
    ELSE Step(start, toks, "none")

\* The bytes the closure |&c| c == b'"' is true of.
QuoteBytes == {"\""}

\* Mutant of get_string_in_quote: the String token takes the whole chunk of
\* split_inclusive, closing quote included.
get_string_in_quote_whole_chunk(b, start, toks) ==
    IF start >= Len(b)
    THEN Step(start, toks, "none")
    ELSE LET length == split_inclusive_first_len(b, start, QuoteBytes)
         IN  Step(start + length - 1,
                  Append(toks, Token(Slice(b, start, start + length), start, "String")),
                  "none")

get_string_in_quote(b, start, toks) ==
    IF start >= Len(b)
    THEN Step(start, toks, "none")
    ELSE LET length == split_inclusive_first_len(b, start, QuoteBytes)
         IN  Step(start + length - 1,
                  Append(toks, Token(Slice(b, start, start + length - 1), start, "String")),
                  "none")

add_quoted_string(b, start, toks) ==
    LET q1 == add_quote_token(b, start, toks)
        str == get_string_in_quote(b, q1.i, q1.tokens)
    IN  add_quote_token(b, str.i, str.tokens)

add_delimiter_token(b, start, toks) ==
    IF start >= Len(b)
    THEN Step(start, toks, "none")
    ELSE Step(start + 1,
              Append(toks, Token(Slice(b, start, start + 1), start, get_token_type(At(b, start)))),
              "none")

add_null_token(b, start, length, toks) ==
    Append(toks, Token(Slice(b, start, start + length), start, "Null"))

add_boolean_token(b, start, length, toks) ==
    Append(toks, Token(Slice(b, start, start + length), start, "Boolean"))

\* The bytes the closure |&c| c.is_ascii_whitespace() || is_delimiters(c) is
\* true of.
WordEndBytes == {" ", "\t", "\n", "\f", "\r", "{", "}", "[", "]", ":", ","}

\* Mutant of add_keyword_or_number: a Number token takes the whole chunk of
\* split_inclusive, the byte that ends the word included.
add_keyword_or_number_whole_chunk(b, start, toks) ==
    IF start >= Len(b)
    THEN Step(start, toks, "none")
    ELSE LET end == start + split_inclusive_first_len(b, start, WordEndBytes)
             w == Slice(b, start, end)
         IN  IF w = <<>>
             THEN Step(start, toks, PanicIndex)
             ELSE IF is_ascii_digit(w[1])
             THEN Step(end, Append(toks, Token(w, start, "Number")), "none")
             ELSE IF w = <<"n", "u", "l", "l">>
             THEN Step(end, add_null_token(b, start, 4, toks), "none")
             ELSE IF w = <<"f", "a", "l", "s", "e">>
             THEN Step(end, add_boolean_token(b, start, 5, toks), "none")
             ELSE IF w = <<"t", "r", "u", "e">>
             THEN Step(end, add_boolean_token(b, start, 4, toks), "none")
             ELSE Step(start, toks, PanicKeyword)

\* The texts of the model are ASCII, so std::str::from_utf8(b).unwrap() succeeds.
add_keyword_or_number(b, start, toks) ==
    IF start >= Len(b)
    THEN Step(start, toks, "none")
    ELSE LET end == start + split_inclusive_first_len(b, start, WordEndBytes) - 1
             w == Slice(b, start, end)
         IN  IF w = <<>>
             THEN Step(start, toks, PanicIndex)          \* b[0] on an empty slice
             ELSE IF is_ascii_digit(w[1])
             THEN Step(end, Append(toks, Token(w, start, "Number")), "none")
             ELSE IF w = <<"n", "u", "l", "l">>
             THEN Step(end, add_null_token(b, start, 4, toks), "none")
             ELSE IF w = <<"f", "a", "l", "s", "e">>
             THEN Step(end, add_boolean_token(b, start, 5, toks), "none")
             ELSE IF w = <<"t", "r", "u", "e">>
             THEN Step(end, add_boolean_token(b, start, 4, toks), "none")
             ELSE Step(start, toks, PanicKeyword)

----------------------------------------------------------------------------
\* src/lexer_lt.rs

\* A lexeme's type is a byte: the delimiter or quote byte itself, "s" for the
\* string in quotes, "n" for null, "t" for true or false, "u" for a number.
Lexeme(s, start, type) == [s |-> s, start |-> start, type |-> type]

\* A (start, end) pair handed back by a scanning helper of lexer_lt.rs, and
\* the panic that interrupted the scan ("none" when it returned).
Span(start, end, panic) == [start |-> start, end |-> end, panic |-> panic]

\* get_string_in_quote of lexer_lt.rs: `s[j] == b'"' || j >= s.len()` indexes
\* s[j] before it compares j with the length.
lt_get_string_in_quote(s, from) ==
    IF Len(s) <= from
    THEN Span(from + 5, from + 1, "none")
    ELSE LET hits == {j \in from..(Len(s) - 1) : At(s, j) = "\""}
         IN  IF hits = {}
             THEN Span(from, Len(s), PanicIndex)
             ELSE Span(from, Min(hits), "none")

IsLtWhitespace(c) == c \in {" ", "\t", "\n", "\r"}

IsLtDelimiter(c) == c \in {"{", "}", "[", "]", ":", ","}

IsLtWordEnd(c) == IsLtDelimiter(c) \/ c = "\"" \/ IsLtWhitespace(c)

\* get_string: `end` is only assigned when a terminating byte is found.
get_string(b, from) ==
    IF Len(b) <= from
    THEN Span(from + 5, from, "none")
    ELSE LET hits == {j \in from..(Len(b) - 1) : IsLtWordEnd(At(b, j))}
         IN  IF hits = {}
             THEN Span(from, from, "none")
             ELSE Span(from, Min(hits), "none")

\* The lexemes the `_` arm of gen_lexemes pushes for the word w at start.
word_lexemes(lx, w, start) ==
    LET l1 == IF w = <<"n", "u", "l", "l">>
              THEN Append(lx, Lexeme(w, start, "n")) ELSE lx
        l2 == IF w = <<"f", "a", "l", "s", "e">> \/ w = <<"t", "r", "u", "e">>
              THEN Append(l1, Lexeme(w, start, "t")) ELSE l1
    IN  IF is_ascii_digit(w[1])
        THEN Append(l2, Lexeme(w, start, "u")) ELSE l2

\* What one iteration of the main loop of gen_lexemes leaves behind: the scan
\* index, the lexemes, and whether the loop goes on ("loop"), is left by
\* `break`, or unwinds with a panic.
LtStep(next, lx, ctl) == [i |-> next, lexemes |-> lx, ctl |-> ctl]

\* The b'"' arm.
lt_quote_arm(b, at, lx) ==
    LET l1 == Append(lx, Lexeme(Slice(b, at, at + 1), at, "\""))
        sp == lt_get_string_in_quote(b, at + 1)
    IN  IF at + 1 >= Len(b) THEN LtStep(at, l1, "break")
        ELSE IF sp.panic # "none" THEN LtStep(at, lx, sp.panic)
        ELSE IF sp.end > sp.start
        THEN LET l2 == Append(l1, Lexeme(Slice(b, sp.start, sp.end), sp.start, "s"))
             IN  IF sp.end < Len(b) /\ At(b, sp.end) = "\""
                 THEN LtStep(sp.end + 1,
                             Append(l2, Lexeme(Slice(b, sp.end, sp.end + 1), sp.end, "\"")),
                             "loop")
                 ELSE LtStep(sp.end, l2, "loop")
        ELSE LtStep(sp.end, l1, "loop")

\* The delimiter arm.
lt_delimiter_arm(b, at, lx) ==
    LtStep(at + 1, Append(lx, Lexeme(Slice(b, at, at + 1), at, At(b, at))), "loop")

\* The whitespace arm.
lt_whitespace_arm(b, at, lx) == LtStep(at + 1, lx, "loop")

\* The `_` arm.
lt_word_arm(b, at, lx) ==
    LET sp == get_string(b, at)
    IN  LtStep(sp.end,
               IF sp.end > sp.start
               THEN word_lexemes(lx, Slice(b, sp.start, sp.end), sp.start)
               ELSE lx,
               "loop")

\* The arm the byte at the scan index selects.
lt_arm(b, at, lx) ==
    IF At(b, at) = "\"" THEN lt_quote_arm(b, at, lx)
    ELSE IF IsLtDelimiter(At(b, at)) THEN lt_delimiter_arm(b, at, lx)
    ELSE IF IsLtWhitespace(At(b, at)) THEN lt_whitespace_arm(b, at, lx)
    ELSE lt_word_arm(b, at, lx)

\* gen_lexemes from scan index `at` on, as one function of the text: the
\* lexemes it returns, the panic it unwinds with, or "hang" when an
\* iteration leaves the index and the lexemes as they were (every later
\* iteration then does the same).
RECURSIVE gen_lexemes_from(_, _, _)
gen_lexemes_from(b, at, lx) ==
    IF at >= Len(b) THEN [kind |-> "Returned", lexemes |-> lx]
    ELSE LET st == lt_arm(b, at, lx)
         IN  IF st.ctl = "break" THEN [kind |-> "Returned", lexemes |-> st.lexemes]
             ELSE IF st.ctl # "loop" THEN [kind |-> "Panic", why |-> st.ctl]
             ELSE IF st.i = at /\ st.lexemes = lx THEN [kind |-> "Hang"]
             ELSE gen_lexemes_from(b, st.i, st.lexemes)

----------------------------------------------------------------------------
\* src/parser_lt.rs

\* enum Value
VNull == [t |-> "Null"]
VBool(b) == [t |-> "Bool", b |-> b]
VNumber(n) == [t |-> "Number", n |-> n]
VString(str) == [t |-> "String", s |-> str]
VArray(vec) == [t |-> "Array", a |-> vec]
VObject(m) == [t |-> "Object", m |-> m]

\* HashMap::new() and HashMap::insert: a map is a function from its keys.
EmptyMap == [k \in {} |-> VNull]

\* Mutant of insert: an existing entry is kept (entry(key).or_insert(value)).
insert_keeps_first(m, key, value) ==
    [k \in (DOMAIN m) \cup {key} |-> IF k \in DOMAIN m THEN m[k] ELSE value]

insert(m, key, value) ==
    [k \in (DOMAIN m) \cup {key} |-> IF k = key THEN value ELSE m[k]]

\* What a production hands back: Ok((value, rest)), Err(msg), or the panic
\* that unwound through it.
Ok(value, rest) == [kind |-> "Ok", value |-> value, rest |-> rest]
Err(msg) == [kind |-> "Err", msg |-> msg]
Panic(why) == [kind |-> "Panic", why |-> why]

\* &lexemes[n..lexemes.len()]
Drop(lx, n) == SubSeq(lx, n + 1, Len(lx))

DigitValue(c) ==
    CASE c = "0" -> 0 [] c = "1" -> 1 [] c = "2" -> 2 [] c = "3" -> 3 [] c = "4" -> 4
      [] c = "5" -> 5 [] c = "6" -> 6 [] c = "7" -> 7 [] c = "8" -> 8 [] c = "9" -> 9

\* The number of consecutive ASCII digits of s from (1-based) position k on.
RECURSIVE DigitRun(_, _)
DigitRun(s, k) ==
    IF k <= Len(s) /\ is_ascii_digit(s[k]) THEN 1 + DigitRun(s, k + 1) ELSE 0

RECURSIVE DecimalValue(_)
DecimalValue(ds) ==
    IF ds = <<>> THEN 0
    ELSE 10 * DecimalValue(SubSeq(ds, 1, Len(ds) - 1)) + DigitValue(ds[Len(ds)])

\* A number is kept as the decimal mant * 10^exp with mant not a multiple
\* of 10 (0 is mant 0, exp 0), so equal numbers have equal representations.
RECURSIVE Normalize(_, _)
Normalize(mant, exp) ==
    IF mant = 0 THEN [mant |-> 0, exp |-> 0]
    ELSE IF mant % 10 = 0 THEN Normalize(mant \div 10, exp + 1)
    ELSE [mant |-> mant, exp |-> exp]

\* str::parse::<f64> on a text that starts with a digit, as every "u" lexeme
\* does: Digit+ | Digit+ '.' Digit* , then an optional exponent
\* ('e' | 'E') ['+' | '-'] Digit+, and nothing after it.
parse_f64(s) ==
    LET intLen == DigitRun(s, 1)
        dot == intLen + 1 <= Len(s) /\ s[intLen + 1] = "."
        fracLen == IF dot THEN DigitRun(s, intLen + 2) ELSE 0
        mantEnd == intLen + (IF dot THEN 1 + fracLen ELSE 0)
        hasExp == mantEnd + 1 <= Len(s) /\ s[mantEnd + 1] \in {"e", "E"}
        signed == hasExp /\ mantEnd + 2 <= Len(s) /\ s[mantEnd + 2] \in {"+", "-"}
        expStart == mantEnd + 2 + (IF signed THEN 1 ELSE 0)
        expLen == IF hasExp THEN DigitRun(s, expStart) ELSE 0
        last == IF hasExp THEN expStart + expLen - 1 ELSE mantEnd
        valid == intLen + fracLen >= 1 /\ (hasExp => expLen >= 1) /\ last = Len(s)
        digits == SubSeq(s, 1, intLen) \o SubSeq(s, intLen + 2, intLen + 1 + fracLen)
        e == DecimalValue(SubSeq(s, expStart, expStart + expLen - 1))
        exp10 == (IF signed /\ s[mantEnd + 2] = "-" THEN 0 - e ELSE e) - fracLen
    IN  IF valid
        THEN [ok |-> TRUE, value |-> Normalize(DecimalValue(digits), exp10)]
        ELSE [ok |-> FALSE]

parse_string(lx) ==
    IF \/ Len(lx) < 3
       \/ lx[1].type # "\""
       \/ lx[3].type # "\""
       \/ lx[2].type # "s"
    THEN Err("expected string")
    ELSE Ok(VString(lx[2].s), Drop(lx, 3))

RECURSIVE parse_value(_), parse_object(_), parse_object_loop(_, _)
RECURSIVE parse_array(_), parse_array_loop(_, _)

parse_value(lx) ==
    IF Len(lx) = 0 THEN Ok(VString(<<>>), lx)
    ELSE IF lx[1].type = "{" THEN parse_object(lx)
    ELSE IF lx[1].type = "[" THEN parse_array(lx)
    ELSE IF lx[1].type = "\"" THEN parse_string(lx)
    ELSE IF lx[1].type = "n" THEN Ok(VNull, Drop(lx, 1))
    ELSE IF lx[1].type = "t" THEN Ok(VBool(lx[1].s = <<"t", "r", "u", "e">>), Drop(lx, 1))
    ELSE IF lx[1].type = "u" /\ parse_f64(lx[1].s).ok
    THEN Ok(VNumber(parse_f64(lx[1].s).value), Drop(lx, 1))
    ELSE Panic(PanicUnimplemented)

\* The end of parse_object, after the member loop: the closing brace.
parse_object_close(m, lx) ==
    IF Len(lx) < 1 \/ lx[1].type # "}"
    THEN Err("right bracket expected.")
    ELSE Ok(VObject(m), Drop(lx, 1))

\* One iteration of the member loop of parse_object, and the iterations after it.
parse_object_loop(m, lx) ==
    LET k == parse_string(lx)
    IN  IF k.kind # "Ok" THEN Err("string expected.")
        ELSE IF Len(k.rest) = 0 THEN Panic(PanicIndex)                 \* k.1[0]
        ELSE IF k.rest[1].type # ":" THEN Err("colon expected.")
        ELSE LET v == parse_value(Drop(k.rest, 1))
             IN  IF v.kind = "Panic" THEN v
                 ELSE IF v.kind = "Err" THEN Err("not a value.")
                 ELSE LET m2 == insert(m, k.value.s, v.value)
                      IN  IF Len(v.rest) = 0 THEN Panic(PanicIndex)    \* v.1[0]
                          ELSE IF v.rest[1].type # ","
                          THEN parse_object_close(m2, v.rest)
                          ELSE parse_object_loop(m2, Drop(v.rest, 1))

parse_object(lx) ==
    IF Len(lx) < 2 \/ lx[1].type # "{" THEN Err("Not a object.")
    ELSE IF lx[2].type = "}" THEN Ok(VObject(EmptyMap), Drop(lx, 2))
    ELSE parse_object_loop(EmptyMap, Drop(lx, 1))

\* One iteration of the element loop of parse_array, and the iterations after it.
parse_array_loop(vec, lx) ==
    IF Len(lx) = 0 THEN Err("array expected.")
    ELSE IF lx[1].type = "]" THEN Ok(VArray(vec), Drop(lx, 1))
    ELSE LET v == parse_value(lx)
         IN  IF v.kind = "Panic" THEN v
             ELSE IF v.kind = "Err" THEN Err("expect value inside array")
             ELSE IF Len(v.rest) = 0 THEN Err("array expected.")
             ELSE IF v.rest[1].type = ","
             THEN parse_array_loop(Append(vec, v.value), Drop(v.rest, 1))
             ELSE parse_array_loop(Append(vec, v.value), v.rest)

parse_array(lx) ==
    IF Len(lx) < 2 \/ lx[1].type # "[" THEN Err("expect array")
    ELSE parse_array_loop(<<>>, Drop(lx, 1))

\* Mutant of parse_lt: the empty token sequence is rejected.
parse_lt_rejects_no_tokens(lx) ==
    LET v == parse_value(lx)
    IN  IF lx = <<>> THEN Err("Empty value")
        ELSE IF v.kind = "Ok" THEN [kind |-> "Ok", value |-> v.value] ELSE v

\* parse_lt after gen_lexemes returned lx: `parse_value(&lexemes)?` then Ok(v.0).
parse_lt(lx) ==
    LET v == parse_value(lx)
    IN  IF v.kind = "Ok" THEN [kind |-> "Ok", value |-> v.value] ELSE v

\* parse_lt as one function of the text: what it returns, the panic it
\* unwinds with, or "Hang" when gen_lexemes never returns.
parse_lt_of(b) ==
    LET g == gen_lexemes_from(b, 0, <<>>)
    IN  IF g.kind = "Returned" THEN parse_lt(g.lexemes) ELSE g

\* parser_lt.rs once more, with the recursion made observable: every
\* production also returns the steps it took, one for each call of
\* parse_value made from parse_object or parse_array (by: the caller, from:
\* the length of the slice of the enclosing call, to: the length of the slice
\* passed) and one for each iteration of a loop that continues (by: the
\* production of the loop, from, to: the length of `lexemes` at the start of
\* the iteration and of the next one). `fuel` bounds the depth of the
\* evaluation: a production entered without fuel gives up.
StepTaken(what, by, from, to) == [what |-> what, by |-> by, from |-> from, to |-> to]
Metered(res, steps) == [res |-> res, steps |-> steps]
OutOfFuel == [kind |-> "OutOfFuel"]

RECURSIVE parse_value_within(_, _)
RECURSIVE parse_object_within(_, _), parse_object_loop_within(_, _, _, _)
RECURSIVE parse_array_within(_, _), parse_array_loop_within(_, _, _, _)

parse_value_within(lx, fuel) ==
    IF fuel = 0 THEN Metered(OutOfFuel, <<>>)
    ELSE IF Len(lx) = 0 THEN Metered(Ok(VString(<<>>), lx), <<>>)
    ELSE IF lx[1].type = "{" THEN parse_object_within(lx, fuel)
    ELSE IF lx[1].type = "[" THEN parse_array_within(lx, fuel)
    ELSE IF lx[1].type = "\"" THEN Metered(parse_string(lx), <<>>)
    ELSE IF lx[1].type = "n" THEN Metered(Ok(VNull, Drop(lx, 1)), <<>>)
    ELSE IF lx[1].type = "t"
    THEN Metered(Ok(VBool(lx[1].s = <<"t", "r", "u", "e">>), Drop(lx, 1)), <<>>)
    ELSE IF lx[1].type = "u" /\ parse_f64(lx[1].s).ok
    THEN Metered(Ok(VNumber(parse_f64(lx[1].s).value), Drop(lx, 1)), <<>>)
    ELSE Metered(Panic(PanicUnimplemented), <<>>)

\* One iteration of the member loop of parse_object(whole), and the
\* iterations after it; lx is `lexemes` at the start of the iteration.
parse_object_loop_within(m, lx, whole, fuel) ==
    LET k == parse_string(lx)
    IN  IF fuel = 0 THEN Metered(OutOfFuel, <<>>)
        ELSE IF k.kind # "Ok" THEN Metered(Err("string expected."), <<>>)
        ELSE IF Len(k.rest) = 0 THEN Metered(Panic(PanicIndex), <<>>)
        ELSE IF k.rest[1].type # ":" THEN Metered(Err("colon expected."), <<>>)
        ELSE LET passed == Drop(k.rest, 1)
                 v == parse_value_within(passed, fuel - 1)
                 called == <<StepTaken("call", "parse_object", Len(whole), Len(passed))>> \o v.steps
             IN  IF v.res.kind \in {"Panic", "OutOfFuel"} THEN Metered(v.res, called)
                 ELSE IF v.res.kind = "Err" THEN Metered(Err("not a value."), called)
                 ELSE LET m2 == insert(m, k.value.s, v.res.value)
                      IN  IF Len(v.res.rest) = 0 THEN Metered(Panic(PanicIndex), called)
                          ELSE IF v.res.rest[1].type # ","
                          THEN Metered(parse_object_close(m2, v.res.rest), called)
                          ELSE LET next == Drop(v.res.rest, 1)
                                   more == parse_object_loop_within(m2, next, whole, fuel - 1)
                               IN  Metered(more.res,
                                           called
                                           \o <<StepTaken("iteration", "parse_object", Len(lx), Len(next))>>
                                           \o more.steps)

parse_object_within(lx, fuel) ==
    IF Len(lx) < 2 \/ lx[1].type # "{" THEN Metered(Err("Not a object."), <<>>)
    ELSE IF lx[2].type = "}" THEN Metered(Ok(VObject(EmptyMap), Drop(lx, 2)), <<>>)
    ELSE parse_object_loop_within(EmptyMap, Drop(lx, 1), lx, fuel)

\* Mutant of parse_array_loop_within: the loop forgets `lexemes = v.1` and
\* goes on with the slice it had at the start of the iteration.
parse_array_loop_within_same_slice(vec, lx, whole, fuel) ==
    IF fuel = 0 THEN Metered(OutOfFuel, <<>>)
    ELSE IF Len(lx) = 0 THEN Metered(Err("array expected."), <<>>)
    ELSE IF lx[1].type = "]" THEN Metered(Ok(VArray(vec), Drop(lx, 1)), <<>>)
    ELSE LET v == parse_value_within(lx, fuel - 1)
             called == <<StepTaken("call", "parse_array", Len(whole), Len(lx))>> \o v.steps
         IN  IF v.res.kind \in {"Panic", "OutOfFuel"} THEN Metered(v.res, called)
             ELSE IF v.res.kind = "Err"
             THEN Metered(Err("expect value inside array"), called)
             ELSE IF Len(v.res.rest) = 0 THEN Metered(Err("array expected."), called)
             ELSE LET more == parse_array_loop_within(Append(vec, v.res.value), lx,
                                                      whole, fuel - 1)
                  IN  Metered(more.res,
                              called
                              \o <<StepTaken("iteration", "parse_array", Len(lx), Len(lx))>>
                              \o more.steps)

\* One iteration of the element loop of parse_array(whole), and the
\* iterations after it; lx is `lexemes` at the start of the iteration.
parse_array_loop_within(vec, lx, whole, fuel) ==
    IF fuel = 0 THEN Metered(OutOfFuel, <<>>)
    ELSE IF Len(lx) = 0 THEN Metered(Err("array expected."), <<>>)
    ELSE IF lx[1].type = "]" THEN Metered(Ok(VArray(vec), Drop(lx, 1)), <<>>)
    ELSE LET v == parse_value_within(lx, fuel - 1)
             called == <<StepTaken("call", "parse_array", Len(whole), Len(lx))>> \o v.steps
         IN  IF v.res.kind \in {"Panic", "OutOfFuel"} THEN Metered(v.res, called)
             ELSE IF v.res.kind = "Err"
             THEN Metered(Err("expect value inside array"), called)
             ELSE IF Len(v.res.rest) = 0 THEN Metered(Err("array expected."), called)
             ELSE LET next == IF v.res.rest[1].type = ","
                              THEN Drop(v.res.rest, 1) ELSE v.res.rest
                      more == parse_array_loop_within(Append(vec, v.res.value), next,
                                                      whole, fuel - 1)
                  IN  Metered(more.res,
                              called
                              \o <<StepTaken("iteration", "parse_array", Len(lx), Len(next))>>
                              \o more.steps)

parse_array_within(lx, fuel) ==
    IF Len(lx) < 2 \/ lx[1].type # "[" THEN Metered(Err("expect array"), <<>>)
    ELSE parse_array_loop_within(<<>>, Drop(lx, 1), lx, fuel)

----------------------------------------------------------------------------
\* src/parser.rs

\* struct Token of the tokenizer parser.rs imports: the fields parser.rs reads.
PToken(lexeme, type) == [lexeme |-> lexeme, type |-> type]

p_get_key(lx) ==
    IF Len(lx) < 3 THEN Err("String should be enclosed with quote.")
    ELSE IF lx[2].type = "String" THEN Ok(lx[2].lexeme, Drop(lx, 3))
    ELSE Err("Key should be string!")

p_get_colon(lx) ==
    IF Len(lx) = 0 THEN Panic(PanicIndex)                              \* lexemes[0]
    ELSE IF lx[1].type = "Colon" THEN Ok(VNull, Drop(lx, 1))
    ELSE Err("Expect a colon!")

\* The String lexemes of the model are the words k and 1; parse::<f64>
\* rejects the first (no digit) and accepts the second.
p_parse_bool_null_number(lx) ==
    IF lx[1].lexeme = <<"t", "r", "u", "e">> THEN Ok(VBool(TRUE), Drop(lx, 1))
    ELSE IF lx[1].lexeme = <<"f", "a", "l", "s", "e">> THEN Ok(VBool(FALSE), Drop(lx, 1))
    ELSE IF lx[1].lexeme = <<"n", "u", "l", "l">> THEN Ok(VNull, Drop(lx, 1))
    ELSE IF parse_f64(lx[1].lexeme).ok
    THEN Ok(VNumber(parse_f64(lx[1].lexeme).value), Drop(lx, 1))
    ELSE Err("Unknown keyword. Not a number, or true, or false, or null")

RECURSIVE p_parse_value(_), p_parse_object(_), p_parse_member(_, _)
RECURSIVE p_parse_array(_), p_parse_element(_, _)

p_parse_value(lx) ==
    IF Len(lx) = 0 THEN Err("Empty value")
    ELSE IF lx[1].type = "LBracket" THEN p_parse_object(lx)
    ELSE IF lx[1].type = "Quote"
    THEN LET k == p_get_key(lx)
         IN  IF k.kind = "Ok" THEN Ok(VString(k.value), k.rest) ELSE k
    ELSE IF lx[1].type = "Bool"
    THEN Ok(VBool(lx[1].lexeme = <<"t", "r", "u", "e">>), Drop(lx, 1))
    ELSE IF lx[1].type = "Null" THEN Ok(VNull, Drop(lx, 1))
    ELSE IF lx[1].type = "SLBracket" THEN p_parse_array(lx)
    ELSE IF lx[1].type = "String" THEN p_parse_bool_null_number(lx)
    ELSE Err("expect a value")

\* One member of parse_object (key, colon, value, insert), the members after
\* it, and the closing bracket: lx starts at the Quote of the key. The `?`
\* hands an Err of the callee back unchanged.
p_parse_member(map, lx) ==
    LET k == p_get_key(lx)
    IN  IF k.kind # "Ok" THEN k
        ELSE LET c == p_get_colon(k.rest)
             IN  IF c.kind # "Ok" THEN c
                 ELSE LET v == p_parse_value(c.rest)
                      IN  IF v.kind # "Ok" THEN v
                          ELSE LET m2 == insert(map, k.value, v.value)
                               IN  IF Len(v.rest) > 0 /\ v.rest[1].type = "Commas"
                                   THEN p_parse_member(m2, Drop(v.rest, 1))
                                   ELSE IF Len(v.rest) = 0
                                   THEN Panic(PanicIndex)              \* lexemes[0]
                                   ELSE IF v.rest[1].type # "RBracket"
                                   THEN Err("object bracket is not matched.")
                                   ELSE Ok(VObject(m2), Drop(v.rest, 1))

\* parse_value calls parse_object with at least the LBracket in lx.
p_parse_object(lx) ==
    IF Len(lx) = 1 THEN Err("expect more data")
    ELSE IF Len(lx) = 2
    THEN (IF lx[2].type = "RBracket"
          THEN Ok(VObject(EmptyMap), <<>>)
          ELSE Err("Ill format data"))
    ELSE p_parse_member(EmptyMap, Drop(lx, 1))

\* One element of parse_array, the elements after it, and the return: lx
\* starts at the element.
p_parse_element(arr, lx) ==
    LET v == p_parse_value(lx)
    IN  IF v.kind # "Ok" THEN v
        ELSE LET a2 == Append(arr, v.value)
             IN  IF Len(v.rest) > 0 /\ v.rest[1].type = "Commas"
                 THEN p_parse_element(a2, Drop(v.rest, 1))
                 ELSE IF Len(v.rest) = 0
                 THEN Panic(PanicSliceStart)                           \* lexemes[1..]
                 ELSE Ok(VArray(a2), Drop(v.rest, 1))

p_parse_array(lx) ==
    IF Len(lx) < 2 THEN Err("expect more data for array.")
    ELSE IF lx[2].type = "SRBracket" THEN Ok(VArray(<<>>), Drop(lx, 2))
    ELSE p_parse_element(<<>>, Drop(lx, 1))

----------------------------------------------------------------------------
\* Input texts.

Concat(a, b) == a \o b

\* The pieces arbitrary input texts are made of: the bytes the tokenizers
\* tell apart, two keywords, and an empty quoted string.
Pieces ==
    { <<"\"">>, <<"{">>, <<"}">>, <<"[">>, <<"]">>, <<":">>, <<",">>, <<" ">>,
      <<"1">>, <<"x">>, <<"n", "u", "l", "l">>, <<"t", "r", "u", "e">>,
      <<"\"", "\"">> }

RECURSIVE TextsOf(_)
TextsOf(n) ==
    IF n = 0 THEN {<<>>}
    ELSE LET shorter == TextsOf(n - 1)
         IN  shorter \cup {Concat(t, p) : t \in shorter, p \in Pieces}

Texts == TextsOf(MaxPieces)

\* Documents of the grammar: value := object | array | quoted-string | number
\* | boolean | null. A number carries its literal and the number it denotes.
Scalars ==
    { [t |-> "null"],
      [t |-> "bool", lit |-> <<"t", "r", "u", "e">>],
      [t |-> "num", lit |-> <<"1">>, mant |-> 1, exp |-> 0],
      [t |-> "str", s |-> <<>>],
      [t |-> "str", s |-> <<"k">>] }

Keys == {<<"k">>, <<"j">>}

RECURSIVE DocsOfSize(_), ListsOfSize(_), MembersOfSize(_)

\* The documents with exactly n nodes.
DocsOfSize(n) ==
    IF n < 1 THEN {}
    ELSE (IF n = 1 THEN Scalars ELSE {})
         \cup {[t |-> "array", elems |-> l] : l \in ListsOfSize(n - 1)}
         \cup {[t |-> "object", members |-> l] : l \in MembersOfSize(n - 1)}

ListsOfSize(n) ==
    IF n = 0 THEN {<<>>}
    ELSE UNION {{<<d>> \o l : d \in DocsOfSize(k), l \in ListsOfSize(n - k)} : k \in 1..n}

MembersOfSize(n) ==
    IF n = 0 THEN {<<>>}
    ELSE UNION {{<<[key |-> key, value |-> d]>> \o l :
                    key \in Keys, d \in DocsOfSize(k), l \in MembersOfSize(n - k)} : k \in 1..n}

Docs == UNION {DocsOfSize(n) : n \in 1..MaxSize}

RECURSIVE RenderToks(_), RenderElems(_), RenderMembers(_)

\* The token texts of a document, in source order.
RenderToks(d) ==
    CASE d.t = "null" -> << <<"n", "u", "l", "l">> >>
      [] d.t = "bool" -> << d.lit >>
      [] d.t = "num" -> << d.lit >>
      [] d.t = "str" -> << <<"\"">> \o d.s \o <<"\"">> >>
      [] d.t = "array" -> << <<"[">> >> \o RenderElems(d.elems) \o << <<"]">> >>
      [] d.t = "object" -> << <<"{">> >> \o RenderMembers(d.members) \o << <<"}">> >>

RenderElems(l) ==
    IF l = <<>> THEN <<>>
    ELSE RenderToks(Head(l))
         \o (IF Len(l) > 1 THEN << <<",">> >> ELSE <<>>)
         \o RenderElems(Tail(l))

RenderMembers(l) ==
    IF l = <<>> THEN <<>>
    ELSE << <<"\"">> \o Head(l).key \o <<"\"">>, <<":">> >>
         \o RenderToks(Head(l).value)
         \o (IF Len(l) > 1 THEN << <<",">> >> ELSE <<>>)
         \o RenderMembers(Tail(l))

\* Where whitespace is put between the token texts.
WsModes == {"none", "all", "trail"}

RECURSIVE Join(_, _)
Join(toks, ws) ==
    IF toks = <<>> THEN (IF ws = "none" THEN <<>> ELSE <<" ">>)
    ELSE (IF ws = "all" THEN <<" ">> ELSE <<>>) \o Head(toks) \o Join(Tail(toks), ws)

Render(d, ws) == Join(RenderToks(d), ws)


\* The pieces of the texts handed to parse_lt to exercise the parser: each
\* delimiter, a quoted key, a lone quote byte, and a keyword with the
\* whitespace byte that ends it.
TokenTexts ==
    { <<"{">>, <<"}">>, <<"[">>, <<"]">>, <<":">>, <<",">>,
      <<"\"", "k", "\"">>, <<"\"">>, <<"n", "u", "l", "l", " ">> }

RECURSIVE TokenTextsOf(_)
TokenTextsOf(n) ==
    IF n = 0 THEN {<<>>}
    ELSE LET shorter == TokenTextsOf(n - 1)
         IN  shorter \cup {Concat(t, p) : t \in shorter, p \in TokenTexts}

\* The texts of at most n whitespace bytes.
RECURSIVE BlankTextsOf(_)
BlankTextsOf(n) ==
    IF n = 0 THEN {<<>>}
    ELSE LET shorter == BlankTextsOf(n - 1)
         IN  shorter \cup {Append(t, w) : t \in shorter, w \in {" ", "\t", "\r", "\n"}}

ParserTexts == TokenTextsOf(MaxTokens) \cup BlankTextsOf(MaxTokens)

\* get_lexemes, the tokenizer parser.rs imports from crate::lexer, is not
\* among the sources (lexer.rs exports generate_tokens and other token
\* kinds). The model lets it return any sequence made of at most MaxTokens
\* of these pieces: one token of each kind parser.rs matches on, with the
\* bare words k and 1 as String tokens (the parse_number test has the word
\* 345 reach parse_bool_null_number), and the three tokens of a quoted key.
PTokenPieces ==
    { << PToken(<<"{">>, "LBracket") >>, << PToken(<<"}">>, "RBracket") >>,
      << PToken(<<"[">>, "SLBracket") >>, << PToken(<<"]">>, "SRBracket") >>,
      << PToken(<<":">>, "Colon") >>, << PToken(<<",">>, "Commas") >>,
      << PToken(<<"\"">>, "Quote") >>,
      << PToken(<<"n", "u", "l", "l">>, "Null") >>,
      << PToken(<<"k">>, "String") >>, << PToken(<<"1">>, "String") >>,
      << PToken(<<"\"">>, "Quote"), PToken(<<"k">>, "String"), PToken(<<"\"">>, "Quote") >> }

RECURSIVE PTokensOf(_)
PTokensOf(n) ==
    IF n = 0 THEN {<<>>}
    ELSE LET shorter == PTokensOf(n - 1)
         IN  shorter \cup {Concat(t, p) : t \in shorter, p \in PTokenPieces}

PTokenSeqs == PTokensOf(MaxTokens)

----------------------------------------------------------------------------
\* generate_tokens (lexer.rs): one action per arm of the main loop's match.

\* The model follows a tokenizer loop for at most one iteration more than
\* the input has bytes.
LoopBudget == iters <= Len(bytes)

InGenerateTokens == entry = "generate_tokens" /\ pc = "generate_tokens"

Finish(st) ==
    IF st.panic = "none"
    THEN /\ i' = st.i
         /\ tokens' = st.tokens
         /\ UNCHANGED <<pc, outcome>>
    ELSE /\ pc' = "done"
         /\ outcome' = st.panic
         /\ UNCHANGED <<i, tokens>>

gt_quote ==
    /\ InGenerateTokens /\ LoopBudget
    /\ i < Len(bytes) /\ At(bytes, i) = "\""
    /\ Finish(add_quoted_string(bytes, i, tokens))
    /\ iters' = iters + 1
    /\ UNCHANGED <<bytes, doc, entry, lexemes, result>>

gt_delimiter ==
    /\ InGenerateTokens /\ LoopBudget
    /\ i < Len(bytes) /\ is_delimiters(At(bytes, i))
    /\ Finish(add_delimiter_token(bytes, i, tokens))
    /\ iters' = iters + 1
    /\ UNCHANGED <<bytes, doc, entry, lexemes, result>>

gt_whitespace ==
    /\ InGenerateTokens /\ LoopBudget
    /\ i < Len(bytes) /\ is_ascii_whitespace(At(bytes, i))
    /\ i' = i + 1
    /\ iters' = iters + 1
    /\ UNCHANGED <<bytes, doc, entry, pc, outcome, tokens, lexemes, result>>

gt_word ==
    /\ InGenerateTokens /\ LoopBudget
    /\ i < Len(bytes)
    /\ At(bytes, i) # "\""
    /\ ~is_delimiters(At(bytes, i))
    /\ ~is_ascii_whitespace(At(bytes, i))
    /\ Finish(add_keyword_or_number(bytes, i, tokens))
    /\ iters' = iters + 1
    /\ UNCHANGED <<bytes, doc, entry, lexemes, result>>

gt_return ==
    /\ InGenerateTokens
    /\ i >= Len(bytes)
    /\ pc' = "done"
    /\ outcome' = "returned"
    /\ UNCHANGED <<bytes, doc, entry, i, iters, tokens, lexemes, result>>

generate_tokens == gt_quote \/ gt_delimiter \/ gt_whitespace \/ gt_word \/ gt_return

----------------------------------------------------------------------------
\* gen_lexemes (lexer_lt.rs), called directly or by parse_lt: one action per
\* arm of the main loop's match.

InGenLexemes == entry \in {"gen_lexemes", "parse_lt"} /\ pc = "gen_lexemes"

\* `return lexemes`: back in parse_lt when it made the call, else back in the caller.
ReturnLexemes ==
    IF entry = "parse_lt"
    THEN pc' = "parse_value" /\ UNCHANGED outcome
    ELSE pc' = "done" /\ outcome' = "returned"

\* One iteration of the loop took the arm st describes.
LtFinish(st) ==
    IF st.ctl = "loop"
    THEN /\ i' = st.i
         /\ lexemes' = st.lexemes
         /\ UNCHANGED <<pc, outcome>>
    ELSE IF st.ctl = "break"
    THEN /\ lexemes' = st.lexemes
         /\ ReturnLexemes
         /\ UNCHANGED i
    ELSE /\ pc' = "done"
         /\ outcome' = st.ctl
         /\ UNCHANGED <<i, lexemes>>

lt_quote ==
    /\ InGenLexemes /\ LoopBudget
    /\ i < Len(bytes) /\ At(bytes, i) = "\""
    /\ LtFinish(lt_quote_arm(bytes, i, lexemes))
    /\ iters' = iters + 1
    /\ UNCHANGED <<bytes, doc, entry, tokens, result>>

lt_delimiter ==
    /\ InGenLexemes /\ LoopBudget
    /\ i < Len(bytes) /\ IsLtDelimiter(At(bytes, i))
    /\ LtFinish(lt_delimiter_arm(bytes, i, lexemes))
    /\ iters' = iters + 1
    /\ UNCHANGED <<bytes, doc, entry, tokens, result>>

lt_whitespace ==
    /\ InGenLexemes /\ LoopBudget
    /\ i < Len(bytes) /\ IsLtWhitespace(At(bytes, i))
    /\ LtFinish(lt_whitespace_arm(bytes, i, lexemes))
    /\ iters' = iters + 1
    /\ UNCHANGED <<bytes, doc, entry, tokens, result>>

lt_word ==
    /\ InGenLexemes /\ LoopBudget
    /\ i < Len(bytes)
    /\ At(bytes, i) # "\""
    /\ ~IsLtDelimiter(At(bytes, i))
    /\ ~IsLtWhitespace(At(bytes, i))
    /\ LtFinish(lt_word_arm(bytes, i, lexemes))
    /\ iters' = iters + 1
    /\ UNCHANGED <<bytes, doc, entry, tokens, result>>

lt_return ==
    /\ InGenLexemes
    /\ i >= Len(bytes)
    /\ ReturnLexemes
    /\ UNCHANGED <<bytes, doc, entry, i, iters, tokens, lexemes, result>>

gen_lexemes == lt_quote \/ lt_delimiter \/ lt_whitespace \/ lt_word \/ lt_return

\* The rest of parse_lt: parse_value on the lexemes, then the return.
parse ==
    /\ entry = "parse_lt" /\ pc = "parse_value"
    /\ LET r == parse_lt(lexemes)
       IN  IF r.kind = "Panic"
           THEN /\ outcome' = r.why
                /\ UNCHANGED result
           ELSE /\ outcome' = "returned"
                /\ result' = r
    /\ pc' = "done"
    /\ UNCHANGED <<bytes, doc, entry, i, iters, tokens, lexemes>>

\* parse (parser.rs): the call of get_lexemes, then parse_value on what it
\* returned.
parser_get_lexemes ==
    /\ entry = "parse" /\ pc = "get_lexemes"
    /\ lexemes' \in PTokenSeqs
    /\ pc' = "parse_value"
    /\ UNCHANGED <<bytes, doc, entry, outcome, i, iters, tokens, result>>

parser_parse ==
    /\ entry = "parse" /\ pc = "parse_value"
    /\ LET r == p_parse_value(lexemes)
       IN  IF r.kind = "Panic"
           THEN /\ outcome' = r.why
                /\ UNCHANGED result
           ELSE /\ outcome' = "returned"
                /\ result' = r
    /\ pc' = "done"
    /\ UNCHANGED <<bytes, doc, entry, i, iters, tokens, lexemes>>

----------------------------------------------------------------------------

\* The caller hands one complete text to one entry point.
Init ==
    /\ \/ doc = NoDoc /\ bytes \in Texts
       \/ doc \in Docs /\ bytes \in {Render(doc, ws) : ws \in WsModes}
    /\ entry \in {"generate_tokens", "gen_lexemes", "parse_lt"}
    /\ pc = IF entry = "generate_tokens" THEN "generate_tokens" ELSE "gen_lexemes"
    /\ outcome = "none"
    /\ i = 0
    /\ iters = 0
    /\ tokens = <<>>
    /\ lexemes = <<>>
    /\ result = NoResult

Next == generate_tokens \/ gen_lexemes \/ parse

Spec == Init /\ [][Next]_vars

\* The parsers on malformed input: parse_lt on a text made of token texts or
\* of whitespace only, parse on whatever get_lexemes returns (the text plays
\* no part in the model of parse).
InitParse ==
    /\ doc = NoDoc
    /\ \/ entry = "parse_lt" /\ bytes \in ParserTexts /\ pc = "gen_lexemes"
       \/ entry = "parse" /\ bytes = <<>> /\ pc = "get_lexemes"
    /\ outcome = "none"
    /\ i = 0
    /\ iters = 0
    /\ tokens = <<>>
    /\ lexemes = <<>>
    /\ result = NoResult

NextParse == gen_lexemes \/ parse \/ parser_get_lexemes \/ parser_parse

SpecParse == InitParse /\ [][NextParse]_vars

----------------------------------------------------------------------------
\* Vocabulary of the properties.

TokenizerEntry == entry \in {"generate_tokens", "gen_lexemes"}

\* The tokenizer call is over and handed a token sequence back.
TokenizerReturned == TokenizerEntry /\ pc = "done" /\ outcome = "returned"

\* The tokenizer call is over and ended in a panic.
TokenizerPanicked == TokenizerEntry /\ pc = "done" /\ outcome # "returned"

\* The token sequence of the tokenizer that ran.
Emitted == IF entry = "generate_tokens" THEN tokens ELSE lexemes

\* The kind of a token, whichever tokenizer emitted it.
KindOf(t) ==
    IF entry = "generate_tokens" THEN t.type
    ELSE CASE t.type = "\"" -> "Quote"
           [] t.type = "s" -> "String"
           [] t.type = "n" -> "Null"
           [] t.type = "t" -> "Boolean"
           [] t.type = "u" -> "Number"
           [] OTHER -> get_token_type(t.type)

\* Token t covers the byte at offset k.
Covers(t, k) == t.start <= k /\ k < t.start + Len(t.s)

Offsets == 0..(Len(bytes) - 1)

QuoteOffsets == {k \in Offsets : At(bytes, k) = "\""}

\* The whitespace bytes and the bytes that end a bare word, as the
\* specification lists them.
IsSpecWhitespace(c) == c \in {" ", "\t", "\r", "\n"}

IsSeparator(c) == IsSpecWhitespace(c) \/ c \in {"{", "}", "[", "]", ":", ",", "\""}

----------------------------------------------------------------------------
\* C1: when a quote opens a quoted region and the input ends before a closing
\* quote, tokenizing ends in a lexical error: it returns no token sequence and
\* does not abort with an out-of-bounds access. (Every quote byte opens or
\* closes a region, so a region is left open exactly when the number of quote
\* bytes is odd.)
C1_UnterminatedStringIsLexError ==
    (TokenizerEntry /\ Cardinality(QuoteOffsets) % 2 = 1)
        => (~TokenizerReturned /\ outcome # PanicIndex)

\* C2: parse_lt returns Ok only when parsing one value consumed every token.
C2_TrailingDataRejected ==
    (entry = "parse_lt" /\ pc = "done" /\ outcome = "returned" /\ result.kind = "Ok")
        => parse_value(lexemes).rest = <<>>

\* The index of the last member of ms with the given key.
LastMember(ms, key) ==
    CHOOSE k \in 1..Len(ms) :
        /\ ms[k].key = key
        /\ \A j \in (k + 1)..Len(ms) : ms[j].key # key

MemberKeys(ms) == {ms[k].key : k \in 1..Len(ms)}

\* The Value a document of the grammar denotes: an array keeps its elements
\* in source order, an object maps each key to the value of its last member
\* with that key.
RECURSIVE ExpectedValue(_)
ExpectedValue(d) ==
    CASE d.t = "null" -> VNull
      [] d.t = "bool" -> VBool(d.lit = <<"t", "r", "u", "e">>)
      [] d.t = "num" -> VNumber([mant |-> d.mant, exp |-> d.exp])
      [] d.t = "str" -> VString(d.s)
      [] d.t = "array" -> VArray([k \in 1..Len(d.elems) |-> ExpectedValue(d.elems[k])])
      [] d.t = "object" ->
            VObject([key \in MemberKeys(d.members) |->
                        ExpectedValue(d.members[LastMember(d.members, key)].value)])

\* C3: for every text generated by the grammar, parse_lt comes back, returns
\* Ok, and the Value has exactly the structure of the document.
C3_GrammarTextsParse ==
    (doc # NoDoc /\ entry = "parse_lt")
        => /\ iters <= Len(bytes)
           /\ pc = "done" =>
                /\ outcome = "returned"
                /\ result = [kind |-> "Ok", value |-> ExpectedValue(doc)]

\* C4: the scan index strictly increases on every iteration of a tokenizer's
\* main loop, so after n iterations it is at least n.
C4_ScanIndexAdvances ==
    pc \in {"generate_tokens", "gen_lexemes"} => i >= iters

\* The bare words of an input without quote bytes: the maximal runs of bytes
\* that are neither whitespace nor delimiters.
WordStarts ==
    {k \in Offsets : /\ ~IsSeparator(At(bytes, k))
                     /\ (k = 0 \/ IsSeparator(At(bytes, k - 1)))}

WordEnd(k) ==
    LET ends == {j \in k..(Len(bytes) - 1) : IsSeparator(At(bytes, j))}
    IN  IF ends = {} THEN Len(bytes) ELSE Min(ends)

WordAt(k) == Slice(bytes, k, WordEnd(k))

IsUnsupportedWord(w) ==
    /\ ~is_ascii_digit(w[1])
    /\ w \notin {<<"n", "u", "l", "l">>, <<"t", "r", "u", "e">>, <<"f", "a", "l", "s", "e">>}

\* C5: on an input with a bare word that is no number, null, true or false,
\* tokenizing fails with an error value: the call neither panics nor hands a
\* token sequence back.
C5_UnsupportedWordIsError ==
    (/\ TokenizerEntry
     /\ QuoteOffsets = {}
     /\ \E k \in WordStarts : IsUnsupportedWord(WordAt(k)))
        => (~TokenizerPanicked /\ ~TokenizerReturned)

\* The tokens n, n+1, n+2 are Quote, String, Quote for the quoted string
\* that opens at offset p and closes at offset q.
IsStringTriple(n, p, q) ==
    /\ KindOf(Emitted[n]) = "Quote" /\ Emitted[n].start = p
    /\ KindOf(Emitted[n + 1]) = "String"
    /\ Emitted[n + 1].start = p + 1
    /\ Emitted[n + 1].s = Slice(bytes, p + 1, q)
    /\ KindOf(Emitted[n + 2]) = "Quote" /\ Emitted[n + 2].start = q

\* C6: a closed quoted string (here the only two quote bytes of the input,
\* the first one not inside a bare word) yields exactly the three tokens
\* Quote, String, Quote, the String spanning the content, also when empty.
C6_QuotedStringIsThreeTokens ==
    \A p, q \in QuoteOffsets :
        (/\ TokenizerReturned
         /\ QuoteOffsets = {p, q} /\ p < q
         /\ (p = 0 \/ IsSeparator(At(bytes, p - 1))))
            => \E n \in 1..(Len(Emitted) - 2) : IsStringTriple(n, p, q)

\* C7: when parse_lt returns Ok for an object text, the Object has one entry
\* per distinct key of the text and no other, and each key maps to the value
\* of its last occurrence in source order.
C7_LastWriteWins ==
    (/\ entry = "parse_lt" /\ pc = "done" /\ outcome = "returned"
     /\ result.kind = "Ok" /\ doc.t = "object")
        => /\ result.value.t = "Object"
           /\ DOMAIN result.value.m = MemberKeys(doc.members)
           /\ Cardinality(DOMAIN result.value.m) = Cardinality(MemberKeys(doc.members))
           /\ \A key \in MemberKeys(doc.members) :
                 result.value.m[key] =
                     ExpectedValue(doc.members[LastMember(doc.members, key)].value)

\* parse_lt returned Ok for an object text whose two members have the same
\* key and different values.
C7_Witness ==
    /\ entry = "parse_lt" /\ pc = "done" /\ outcome = "returned"
    /\ result.kind = "Ok" /\ doc.t = "object"
    /\ Len(doc.members) = 2
    /\ doc.members[1].key = doc.members[2].key
    /\ ExpectedValue(doc.members[1].value) # ExpectedValue(doc.members[2].value)
    /\ result.value.m[doc.members[2].key] = ExpectedValue(doc.members[2].value)

\* C8: in a returned token sequence every token's text is the input at its
\* offset, and every byte of the input is covered by exactly one token or is
\* a whitespace byte covered by none.
C8_SpansReconstructInput ==
    TokenizerReturned =>
        /\ \A n \in DOMAIN Emitted :
              Emitted[n].s = Slice(bytes, Emitted[n].start, Emitted[n].start + Len(Emitted[n].s))
        /\ \A k \in Offsets :
              LET covering == {n \in DOMAIN Emitted : Covers(Emitted[n], k)}
              IN  \/ Cardinality(covering) = 1
                  \/ covering = {} /\ IsSpecWhitespace(At(bytes, k))

\* C9 as stated: consecutive tokens have strictly increasing starts and do
\* not overlap.
C9_Original_StrictlyIncreasing ==
    TokenizerReturned =>
        \A n \in 1..(Len(Emitted) - 1) :
            /\ Emitted[n + 1].start > Emitted[n].start
            /\ Emitted[n + 1].start >= Emitted[n].start + Len(Emitted[n].s)

\* C9 amended: consecutive tokens never overlap, and their starts strictly
\* increase except after a zero-length String token, whose successor starts
\* at the same offset.
C9_SpansNonOverlapping ==
    TokenizerReturned =>
        \A n \in 1..(Len(Emitted) - 1) :
            /\ Emitted[n + 1].start >= Emitted[n].start + Len(Emitted[n].s)
            /\ \/ Emitted[n + 1].start > Emitted[n].start
               \/ KindOf(Emitted[n]) = "String" /\ Emitted[n].s = <<>>

\* A returned sequence holds the String token of an empty quoted string,
\* followed by a token starting at the same offset.
C9_Witness ==
    /\ TokenizerReturned
    /\ \E n \in 1..(Len(Emitted) - 1) :
          /\ KindOf(Emitted[n]) = "String" /\ Emitted[n].s = <<>>
          /\ Emitted[n + 1].start = Emitted[n].start
          /\ KindOf(Emitted[n + 1]) = "Quote"

\* C10 as stated: no token of any kind covers a whitespace byte.
C10_Original_NoTokenCoversWhitespace ==
    TokenizerReturned =>
        \A n \in DOMAIN Emitted : \A k \in Offsets :
            Covers(Emitted[n], k) => ~IsSpecWhitespace(At(bytes, k))

\* C10 amended: no token other than a String token (the raw content of a
\* quoted region) covers a whitespace byte.
C10_OnlyStringsCoverWhitespace ==
    TokenizerReturned =>
        \A n \in DOMAIN Emitted : \A k \in Offsets :
            (Covers(Emitted[n], k) /\ KindOf(Emitted[n]) # "String")
                => ~IsSpecWhitespace(At(bytes, k))

\* A returned sequence holds a word token (Number, Null or Boolean) that
\* ends right before a whitespace byte.
C10_Witness ==
    /\ TokenizerReturned
    /\ \E n \in DOMAIN Emitted :
          /\ KindOf(Emitted[n]) \in {"Number", "Null", "Boolean"}
          /\ Emitted[n].start + Len(Emitted[n].s) < Len(bytes)
          /\ IsSpecWhitespace(At(bytes, Emitted[n].start + Len(Emitted[n].s)))

----------------------------------------------------------------------------
\* Vocabulary of the parser properties.

\* The parse_lt call is over, or its tokenizer loop ran for more iterations
\* than the input has bytes (the scan index stopped advancing).
ParseLtOver == entry = "parse_lt" /\ (pc = "done" \/ iters > Len(bytes))

\* What the caller of parse_lt observes.
ParseLtObserved ==
    IF pc # "done" THEN [kind |-> "Hang"]
    ELSE IF outcome = "returned" THEN result
    ELSE Panic(outcome)

\* Two outcomes a caller cannot tell apart as far as C11 goes: the same
\* Value, an error both times, or no return both times.
SameOutcome(a, b) ==
    \/ a.kind = "Ok" /\ b = a
    \/ a.kind \in {"Err", "Panic"} /\ b.kind \in {"Err", "Panic"}
    \/ a.kind = "Hang" /\ b.kind = "Hang"

WhitespaceBytes == {" ", "\t", "\r", "\n"}

\* The token texts joined with the whitespace byte w put into gap k (gap 0 is
\* before the first token, gap Len(toks) after the last one).
RECURSIVE JoinWithGap(_, _, _)
JoinWithGap(toks, k, w) ==
    (IF k = 0 THEN <<w>> ELSE <<>>)
    \o (IF toks = <<>> THEN <<>> ELSE Head(toks) \o JoinWithGap(Tail(toks), k - 1, w))

\* C11: parsing is whitespace-insensitive. For a text of the grammar, however
\* its tokens are spaced, putting one more whitespace byte (space, tab, CR or
\* LF) before, between or after the tokens of the unspaced text gives the
\* same outcome of parse_lt: the same Value, or an error both times, and a
\* return both times.
C11_WhitespaceInsensitive ==
    (doc # NoDoc /\ ParseLtOver)
        => \A k \in 0..Len(RenderToks(doc)) : \A w \in WhitespaceBytes :
              SameOutcome(ParseLtObserved, parse_lt_of(JoinWithGap(RenderToks(doc), k, w)))

\* The parse call is over.
ParseOver == entry = "parse" /\ pc = "done"

\* What the caller of parse observes.
ParseObserved == IF outcome = "returned" THEN result ELSE Panic(outcome)

\* The text holds whitespace bytes only (or nothing).
IsBlank(b) == \A k \in 1..Len(b) : IsSpecWhitespace(b[k])

\* C12: an input that yields no tokens is handled at the top level. For the
\* empty text and for a text of whitespace bytes only, gen_lexemes returns no
\* lexeme and parse_lt returns exactly Ok(Value::String("")); when
\* get_lexemes returns no token, parse returns the error "Empty value".
\* Neither call panics or fails to return.
C12_NoTokensHandledAtTopLevel ==
    /\ (entry = "parse_lt" /\ IsBlank(bytes))
          => /\ iters <= Len(bytes)
             /\ pc \in {"parse_value", "done"} => lexemes = <<>>
             /\ pc = "done" =>
                  /\ outcome = "returned"
                  /\ result = [kind |-> "Ok", value |-> VString(<<>>)]
    /\ (ParseOver /\ lexemes = <<>>)
          => /\ outcome = "returned"
             /\ result = Err("Empty value")

\* parse_lt returned on a non-empty text of whitespace bytes only.
C12_Witness ==
    /\ entry = "parse_lt" /\ pc = "done"
    /\ Len(bytes) > 1 /\ IsBlank(bytes)
    /\ result = [kind |-> "Ok", value |-> VString(<<>>)]

\* The lexemes gen_lexemes returned are handed to parse_value of parser_lt.rs.
AtParseLtValue == entry = "parse_lt" /\ pc = "parse_value"

\* The tokens get_lexemes returned are handed to parse_value of parser.rs.
AtParseValue == entry = "parse" /\ pc = "parse_value"

\* C13: wherever a value is expected, `{` immediately followed by `}` parses
\* to an empty Object and `[` immediately followed by `]` to an empty Array,
\* consuming exactly those two tokens and leaving the tokens after them to
\* the caller. parse_value is applied at every position of the token
\* sequence where such a pair starts; both parsers are covered.
C13_EmptyContainersParse ==
    /\ AtParseLtValue =>
          \A k \in 1..(Len(lexemes) - 1) :
             /\ (lexemes[k].type = "{" /\ lexemes[k + 1].type = "}")
                   => parse_value(Drop(lexemes, k - 1))
                         = Ok(VObject(EmptyMap), Drop(lexemes, k + 1))
             /\ (lexemes[k].type = "[" /\ lexemes[k + 1].type = "]")
                   => parse_value(Drop(lexemes, k - 1))
                         = Ok(VArray(<<>>), Drop(lexemes, k + 1))
    /\ AtParseValue =>
          \A k \in 1..(Len(lexemes) - 1) :
             /\ (lexemes[k].type = "LBracket" /\ lexemes[k + 1].type = "RBracket")
                   => p_parse_value(Drop(lexemes, k - 1))
                         = Ok(VObject(EmptyMap), Drop(lexemes, k + 1))
             /\ (lexemes[k].type = "SLBracket" /\ lexemes[k + 1].type = "SRBracket")
                   => p_parse_value(Drop(lexemes, k - 1))
                         = Ok(VArray(<<>>), Drop(lexemes, k + 1))

\* Offset k lies outside every quoted region: each quote byte opens or closes
\* a region, so an even number of quote bytes precede it and it is no quote.
OutsideQuotes(k) ==
    /\ At(bytes, k) # "\""
    /\ Cardinality({q \in QuoteOffsets : q < k}) % 2 = 0

\* The tokens of the returned sequence that cover offset k.
TokensCovering(k) == {n \in 1..Len(Emitted) : Covers(Emitted[n], k)}

\* C14: in a returned token sequence, each of the six delimiter bytes outside
\* a quoted region yields exactly one token: of the kind of that byte,
\* spanning that single byte, with start equal to the byte's offset. And the
\* text of every emitted token equals the input slice at its start offset.
C14_DelimiterIsOneToken ==
    TokenizerReturned =>
        /\ \A k \in Offsets :
              (is_delimiters(At(bytes, k)) /\ OutsideQuotes(k))
                 => /\ Cardinality(TokensCovering(k)) = 1
                    /\ \A n \in TokensCovering(k) :
                          /\ Emitted[n].start = k
                          /\ Emitted[n].s = <<At(bytes, k)>>
                          /\ KindOf(Emitted[n]) = get_token_type(At(bytes, k))
        /\ \A n \in 1..Len(Emitted) :
              Emitted[n].s = Slice(bytes, Emitted[n].start, Emitted[n].start + Len(Emitted[n].s))

\* The last byte of the input is a quote byte that opens a quoted region: an
\* even number of quote bytes precede it.
EndsWithOpeningQuote ==
    /\ Len(bytes) > 0
    /\ At(bytes, Len(bytes) - 1) = "\""
    /\ Cardinality(QuoteOffsets) % 2 = 1

\* The tokens of generate_tokens that start at offset k.
TokensStartingAt(k) == {n \in 1..Len(tokens) : tokens[n].start = k}

\* The returned sequence ends with a single Quote token at the last offset:
\* it is the last token, and no other token starts there.
EndsWithSingleQuote ==
    /\ Len(tokens) > 0
    /\ tokens[Len(tokens)] = Token(<<"\"">>, Len(bytes) - 1, "Quote")
    /\ TokensStartingAt(Len(bytes) - 1) = {Len(tokens)}

\* C15: when the last byte of the input is a quote that opens a
\* quoted region, generate_tokens returns normally and the returned sequence
\* ends with a single Quote token at that offset.
C15_FinalOpeningQuoteIsOneToken ==
    (entry = "generate_tokens" /\ EndsWithOpeningQuote)
        => /\ iters <= Len(bytes)
           /\ pc = "done" => (outcome = "returned" /\ EndsWithSingleQuote)

\* A parser ran on the token sequence in `lexemes`: parse is over, or
\* parse_lt is over and its tokenizer had returned.
ParserRan ==
    \/ ParseOver
    \/ /\ entry = "parse_lt" /\ pc = "done"
       /\ gen_lexemes_from(bytes, 0, <<>>) = [kind |-> "Returned", lexemes |-> lexemes]

\* What the caller of the parser observes.
ParserObserved == IF outcome = "returned" THEN result ELSE Panic(outcome)

\* The kind of a token of either parser, in the names of parser.rs.
TokenKindOf(t) ==
    IF entry = "parse" THEN t.type
    ELSE CASE t.type = "{" -> "LBracket"
           [] t.type = "}" -> "RBracket"
           [] t.type = "[" -> "SLBracket"
           [] t.type = "]" -> "SRBracket"
           [] t.type = ":" -> "Colon"
           [] t.type = "," -> "Commas"
           [] t.type = "\"" -> "Quote"
           [] t.type = "s" -> "String"
           [] t.type = "n" -> "Null"
           [] t.type = "t" -> "Bool"
           [] t.type = "u" -> "Number"

\* The kinds of the tokens handed to the parser.
Kinds == [n \in 1..Len(lexemes) |-> TokenKindOf(lexemes[n])]

\* The kinds that cannot start a value in either parser.
NeverStartsValue == {"RBracket", "SRBracket", "Colon", "Commas"}

\* The tokens are `[`, null and then something other than a well-formed
\* continuation: no token at all, a token that is neither Comma nor `]`, or
\* a Comma that no value follows.
MalformedArrayAfterElement ==
    /\ Len(Kinds) >= 2 /\ Kinds[1] = "SLBracket" /\ Kinds[2] = "Null"
    /\ \/ Len(Kinds) = 2
       \/ Kinds[3] \notin {"Commas", "SRBracket"}
       \/ Kinds[3] = "Commas" /\ (Len(Kinds) = 3 \/ Kinds[4] \in NeverStartsValue)

\* C16: in an array, after each element the next token must be a Comma that
\* another value follows, or `]`. A missing comma (`[null null]`), a trailing
\* comma (`[null,]`), a wrong closer (`[null}`) and tokens that run out
\* before `]` are rejected with an error: the parser neither accepts the
\* array nor panics.
C16_ArrayElementsSeparated ==
    (ParserRan /\ MalformedArrayAfterElement) => ParserObserved.kind = "Err"

\* The tokens start with `{`, a quoted key and a colon.
StartsMember ==
    /\ Len(Kinds) >= 5
    /\ SubSeq(Kinds, 1, 5) = <<"LBracket", "Quote", "String", "Quote", "Colon">>

\* The tokens are `{`, a quoted key, a colon and then no token at all, or
\* the value null followed by no token or by a token that is neither Comma
\* nor `}`.
MalformedObjectAfterColon ==
    /\ StartsMember
    /\ \/ Len(Kinds) = 5
       \/ /\ Kinds[6] = "Null"
          /\ (Len(Kinds) = 6 \/ Kinds[7] \notin {"Commas", "RBracket"})

\* C17: in an object, when the token after a member's value is not a Comma
\* it must be `}`, and anything else is an error. That includes a token
\* sequence that ends right after the value (`{"k":null`) or right after the
\* colon (`{"k":`): the parser returns an error value and does not panic on
\* an out-of-bounds index.
C17_ObjectMustClose ==
    (ParserRan /\ MalformedObjectAfterColon) => ParserObserved.kind = "Err"

\* The tokens are `{`, a quoted key and then no token at all or a token that
\* is not a colon.
MissingColonAfterKey ==
    /\ Len(Kinds) >= 4
    /\ SubSeq(Kinds, 1, 4) = <<"LBracket", "Quote", "String", "Quote">>
    /\ (Len(Kinds) = 4 \/ Kinds[5] # "Colon")

\* C18: after a member key the parser requires a Colon token. When the next
\* token is anything else, or when there is no next token (`{"k"`,
\* `{"k" null}`), it returns an error; it does not read the token after the
\* key without checking that one exists.
C18_ColonAfterKey ==
    (ParserRan /\ MissingColonAfterKey) => ParserObserved.kind = "Err"

\* The three tokens from position n on are Quote, String, Quote.
IsQuotedTriple(n) ==
    /\ Len(Kinds) >= n + 2
    /\ SubSeq(Kinds, n, n + 2) = <<"Quote", "String", "Quote">>

\* C19: a string value or a member key is accepted only when the next three
\* tokens are exactly Quote, String, Quote. When a string value is expected
\* (the value starts with a Quote) or a member key is expected (after the
\* `{` of an object that is not empty) and the three tokens are anything
\* else, or fewer than three tokens are left, the parser returns an error.
C19_StringNeedsBothQuotes ==
    /\ (ParserRan /\ Len(Kinds) >= 1 /\ Kinds[1] = "Quote" /\ ~IsQuotedTriple(1))
          => ParserObserved.kind = "Err"
    /\ (/\ ParserRan
        /\ Len(Kinds) >= 2 /\ Kinds[1] = "LBracket" /\ Kinds[2] # "RBracket"
        /\ ~IsQuotedTriple(2))
          => ParserObserved.kind = "Err"

\* C20: when a value is expected and the kind of the next token cannot start
\* a value (`}`, `]`, `:`, `,`), the parser returns an error; it neither
\* panics nor reaches unimplemented!(). The value is expected at the start
\* of the tokens, as the first element of an array, or after the colon of a
\* member. (gen_lexemes emits no String lexeme without a Quote before it,
\* and the String tokens of parser.rs are bare words, so the String case of
\* the claim has no instance here.)
C20_NonValueTokenIsError ==
    /\ (ParserRan /\ Len(Kinds) >= 1 /\ Kinds[1] \in NeverStartsValue)
          => ParserObserved.kind = "Err"
    /\ (/\ ParserRan
        /\ Len(Kinds) >= 2 /\ Kinds[1] = "SLBracket"
        /\ Kinds[2] \in NeverStartsValue \ {"SRBracket"})
          => ParserObserved.kind = "Err"
    /\ (ParserRan /\ StartsMember /\ Len(Kinds) >= 6 /\ Kinds[6] \in NeverStartsValue)
          => ParserObserved.kind = "Err"

\* C21: when the text of a Number token (a word whose first byte is a digit)
\* cannot be parsed as a 64-bit float, parse_lt returns an error value: it
\* does not panic and does not produce a Number. The Number token is the
\* first token of the text or the first element of an array.
C21_InvalidNumberIsError ==
    /\ (/\ ParserRan /\ entry = "parse_lt"
        /\ Len(lexemes) >= 1 /\ lexemes[1].type = "u"
        /\ ~parse_f64(lexemes[1].s).ok)
          => ParserObserved.kind = "Err"
    /\ (/\ ParserRan /\ entry = "parse_lt"
        /\ Len(lexemes) >= 2 /\ lexemes[1].type = "[" /\ lexemes[2].type = "u"
        /\ ~parse_f64(lexemes[2].s).ok)
          => ParserObserved.kind = "Err"

\* The bare words of the input: the maximal runs of bytes that are neither
\* whitespace, delimiters nor quotes, outside every quoted region.
BareWordStarts == {k \in WordStarts : OutsideQuotes(k)}

\* The kind of the token of a word that is a number, null, true or false.
WordKind(w) ==
    IF is_ascii_digit(w[1]) THEN "Number"
    ELSE IF w = <<"n", "u", "l", "l">> THEN "Null"
    ELSE "Boolean"

\* C22: for every bare word that is a number or a keyword, the token emitted
\* covers exactly the maximal run up to the next whitespace, delimiter or
\* quote byte, or up to the end of the input when none follows, and has the
\* kind of the word; scanning resumes at the byte right after the run. On an
\* input without quotes whose words are all numbers or keywords the
\* tokenizer therefore returns.
C22_BareWordIsMaximalRun ==
    TokenizerEntry =>
        /\ \A k \in BareWordStarts :
              ~IsUnsupportedWord(WordAt(k)) =>
                 /\ TokenizerReturned =>
                       /\ \E n \in 1..Len(Emitted) :
                             /\ Emitted[n].start = k
                             /\ Emitted[n].s = WordAt(k)
                             /\ KindOf(Emitted[n]) = WordKind(WordAt(k))
                       /\ \A j \in k..(WordEnd(k) - 1) :
                             Cardinality(TokensCovering(j)) = 1
                 /\ (pc \in {"generate_tokens", "gen_lexemes"} /\ i > k) => i >= WordEnd(k)
        /\ (/\ QuoteOffsets = {}
            /\ \A k \in WordStarts : ~IsUnsupportedWord(WordAt(k)))
              => /\ iters <= Len(bytes)
                 /\ pc = "done" => outcome = "returned"


\* The kind of lexer.rs that corresponds to a kind byte of lexer_lt.rs.
CorrespondingKind(type) ==
    CASE type = "\"" -> "Quote"
      [] type = "s" -> "String"
      [] type = "u" -> "Number"
      [] type = "n" -> "Null"
      [] type = "t" -> "Boolean"
      [] OTHER -> get_token_type(type)

\* The outcome of the finished call of generate_tokens, in the terms in
\* which gen_lexemes_from reports the outcome of gen_lexemes.
GenerateTokensOutcome == IF outcome = "returned" THEN "Returned" ELSE "Panic"

\* C23: the two tokenizers differ only in the representation of tokens: on
\* every input generate_tokens and gen_lexemes have the same outcome, and
\* when they return they return sequences of the same length whose tokens
\* have, position by position, the same start offset, the same text and
\* corresponding kinds.
C23_LexersAgree ==
    (entry = "generate_tokens" /\ pc = "done") =>
        LET lt == gen_lexemes_from(bytes, 0, <<>>)
        IN  /\ lt.kind = GenerateTokensOutcome
            /\ (lt.kind = "Returned" /\ outcome = "returned") =>
                  /\ Len(lt.lexemes) = Len(tokens)
                  /\ \A n \in 1..Len(tokens) :
                        /\ lt.lexemes[n].start = tokens[n].start
                        /\ lt.lexemes[n].s = tokens[n].s
                        /\ CorrespondingKind(lt.lexemes[n].type) = tokens[n].type


\* parse_value of parser_lt.rs on the lexemes handed to it, with its steps.
ParseLtSteps == parse_value_within(lexemes, Len(lexemes) + 1)

\* The steps of one sort in the run of parse_value.
StepsOf(what) == {j \in DOMAIN ParseLtSteps.steps : ParseLtSteps.steps[j].what = what}

\* C24: parsing in parser_lt.rs terminates on every finite token sequence:
\* every call of parse_value made from parse_object or parse_array receives
\* a strictly shorter slice than the enclosing call, every iteration of the
\* member loop or the element loop that continues consumes at least one
\* token, and the number of calls and the number of iterations are bounded
\* by the number of tokens. The run never exceeds a depth of one more than
\* the number of tokens, and gives what parse_lt gave.
C24_ParseLtTerminates ==
    (ParserRan /\ entry = "parse_lt") =>
        /\ ParseLtSteps.res.kind # "OutOfFuel"
        /\ ParseLtSteps.res = parse_value(lexemes)
        /\ ParserObserved = parse_lt(lexemes)
        /\ \A j \in DOMAIN ParseLtSteps.steps :
              ParseLtSteps.steps[j].to < ParseLtSteps.steps[j].from
        /\ Cardinality(StepsOf("call")) <= Len(lexemes)
        /\ Cardinality(StepsOf("iteration")) <= Len(lexemes)

\* The steps of one sort taken in one production.
StepsBy(what, by) == {j \in StepsOf(what) : ParseLtSteps.steps[j].by = by}

\* A document was parsed with a call of parse_value from parse_array and,
\* inside it, one from parse_object, and the element loop went round again
\* after the element.
C24_Witness ==
    /\ ParserRan /\ entry = "parse_lt"
    /\ ParserObserved.kind = "Ok"
    /\ StepsBy("call", "parse_array") # {}
    /\ StepsBy("call", "parse_object") # {}
    /\ StepsBy("iteration", "parse_array") # {}
============================================================================
